---- MODULE Spec2Model ----
(***************************************************************************)
(* spot-init: a minimal init / process supervisor (src/src/main.rs).       *)
(*                                                                         *)
(* main reads a configuration, spawns one child per entry, installs a      *)
(* signal listener, optionally (pid 1) starts a one-shot forwarder, and    *)
(* then waits for the exit loop.  Every channel of the program is          *)
(* crossbeam bounded(0): a send completes only together with a receive     *)
(* (a rendezvous), and fails once the only receiver has been dropped.      *)
(* A rendezvous is therefore one action that moves both threads.           *)
(***************************************************************************)
EXTENDS Integers, Sequences, FiniteSets, TLC

\* ---- bounds of the model -------------------------------------------------
MaxChildren == 3

\* ---- program constants ---------------------------------------------------
SIGTERM == 15
SIGINT == 2
SIGQUIT == 3

Signal == {SIGTERM, SIGINT, SIGQUIT}
Procs == 1..MaxChildren
NoSignal == 0

VARIABLES
    is_pid1,              \* process::id() == 1
    mainPc,               \* position of main
    config,               \* number of entries of config.processes
    processes,            \* number of Process values constructed so far
    CHILD_PROCESS_COUNT,  \* static AtomicUsize
    IS_SIGNALED,          \* static AtomicBool
    is_alive,             \* Process.is_alive
    watcher,              \* position of each exit-watcher thread
    relay,                \* position of each signal-relay thread
    kills,                \* per child, the signals passed to kill(pid, _)
    handler,              \* position of the signal listener thread
    handlerSignal,        \* the signal the listener is handling
    forwarder,            \* position of the pid1 forwarder thread
    forwarderSignal,      \* the value the forwarder took from signal_rx
    forwarderIndex,       \* index of the forwarder's for_each over processes
    exitLoop,             \* position of the exit loop thread
    cascades              \* number of SIGTERM sends the exit loop has begun

vars == <<is_pid1, mainPc, config, processes, CHILD_PROCESS_COUNT, IS_SIGNALED,
          is_alive, watcher, relay, kills, handler, handlerSignal, forwarder,
          forwarderSignal, forwarderIndex, exitLoop, cascades>>

mainVars == <<mainPc, config, processes, CHILD_PROCESS_COUNT>>
childVars == <<is_alive, watcher, relay, kills>>
handlerVars == <<handler, handlerSignal>>
forwarderVars == <<forwarder, forwarderSignal, forwarderIndex>>
exitLoopVars == <<exitLoop, cascades>>

\* The supervisor process is gone: no thread of it takes another step.
Terminated == mainPc \in {"exited", "panicked", "aborted"}

Init ==
    /\ is_pid1 \in BOOLEAN
    /\ mainPc = "read_config"
    /\ config = 0
    /\ processes = 0
    /\ CHILD_PROCESS_COUNT = 0
    /\ IS_SIGNALED = FALSE
    /\ is_alive = [p \in Procs |-> FALSE]
    /\ watcher = [p \in Procs |-> "none"]
    /\ relay = [p \in Procs |-> "none"]
    /\ kills = [p \in Procs |-> <<>>]
    /\ handler = "none"
    /\ handlerSignal = NoSignal
    /\ forwarder = "none"
    /\ forwarderSignal = NoSignal
    /\ forwarderIndex = 0
    /\ exitLoop = "none"
    /\ cascades = 0

\* ---- main (src/src/main.rs 21-90) ---------------------------------------

\* read_config returned: config.processes has n entries.
ReadConfig ==
    /\ mainPc = "read_config"
    /\ \E n \in 0..MaxChildren : config' = n
    /\ mainPc' = "spawn"
    /\ UNCHANGED <<is_pid1, processes, CHILD_PROCESS_COUNT, IS_SIGNALED,
                   childVars, handlerVars, forwarderVars, exitLoopVars>>

\* read_config panicked (open, read or parse failed).
ReadConfigFail ==
    /\ mainPc = "read_config"
    /\ mainPc' = "aborted"
    /\ UNCHANGED <<is_pid1, config, processes, CHILD_PROCESS_COUNT, IS_SIGNALED,
                   childVars, handlerVars, forwarderVars, exitLoopVars>>

\* One step of the map over config.processes: fetch_add, then Process::new,
\* which spawns the command and starts its relay and exit-watcher threads.
Spawn ==
    /\ mainPc = "spawn"
    /\ processes < config
    /\ CHILD_PROCESS_COUNT' = CHILD_PROCESS_COUNT + 1
    /\ LET p == processes + 1 IN
        /\ processes' = p
        /\ is_alive' = [is_alive EXCEPT ![p] = TRUE]
        /\ watcher' = [watcher EXCEPT ![p] = "wait"]
        /\ relay' = [relay EXCEPT ![p] = "select"]
    /\ UNCHANGED <<is_pid1, mainPc, config, IS_SIGNALED, kills,
                   handlerVars, forwarderVars, exitLoopVars>>

\* Command::spawn failed: the expect in Process::new panics in main, after
\* the fetch_add; the children spawned so far are left as they are.
SpawnFail ==
    /\ mainPc = "spawn"
    /\ processes < config
    /\ CHILD_PROCESS_COUNT' = CHILD_PROCESS_COUNT + 1
    /\ mainPc' = "aborted"
    /\ UNCHANGED <<is_pid1, config, processes, IS_SIGNALED, childVars,
                   handlerVars, forwarderVars, exitLoopVars>>

\* All Process values are collected: register_sig_handler starts the listener,
\* the forwarder is started when is_pid1, the exit loop is started and main
\* blocks in join.  (A thread that has been started and has not yet taken a
\* step is the same as one started a moment later, so the three thread::spawn
\* calls are one step.)
StartThreads ==
    /\ mainPc = "spawn"
    /\ processes = config
    /\ handler' = "wait"
    /\ forwarder' = IF is_pid1 THEN "recv" ELSE "none"
    /\ exitLoop' = "recv"
    /\ mainPc' = "join"
    /\ UNCHANGED <<is_pid1, config, processes, CHILD_PROCESS_COUNT, IS_SIGNALED,
                   childVars, handlerSignal, forwarderSignal,
                   forwarderIndex, cascades>>

\* main also waits for every relay loop before it returns.
JoinOkAfterRelays ==
    /\ mainPc = "join"
    /\ exitLoop = "done"
    /\ \A p \in Procs : relay[p] \in {"none", "done"}
    /\ mainPc' = "exited"
    /\ UNCHANGED <<is_pid1, config, processes, CHILD_PROCESS_COUNT, IS_SIGNALED,
                   childVars, handlerVars, forwarderVars, exitLoopVars>>

\* join returned Ok: the exit loop printed "done"; main returns.
JoinOk ==
    /\ mainPc = "join"
    /\ exitLoop = "done"
    /\ mainPc' = "exited"
    /\ UNCHANGED <<is_pid1, config, processes, CHILD_PROCESS_COUNT, IS_SIGNALED,
                   childVars, handlerVars, forwarderVars, exitLoopVars>>

\* join returned Err (the exit loop thread panicked): the expect panics main.
JoinErr ==
    /\ mainPc = "join"
    /\ exitLoop = "panicked"
    /\ mainPc' = "panicked"
    /\ UNCHANGED <<is_pid1, config, processes, CHILD_PROCESS_COUNT, IS_SIGNALED,
                   childVars, handlerVars, forwarderVars, exitLoopVars>>

\* ---- the exit-watcher (main.rs 172-184) --------------------------------

\* child.wait() returns; the is_alive store is skipped.
WatcherWaitNoStore(p) ==
    /\ ~Terminated
    /\ watcher[p] = "wait"
    /\ watcher' = [watcher EXCEPT ![p] = "send_exit"]
    /\ UNCHANGED <<is_pid1, mainVars, IS_SIGNALED, is_alive, relay, kills,
                   handlerVars, forwarderVars, exitLoopVars>>

\* The child terminates (on its own or because of a signal): child.wait()
\* returns and is_alive is stored false; next is exit_tx.send.  When this
\* happens is the child's choice, not the supervisor's.
WatcherWait(p) ==
    /\ ~Terminated
    /\ watcher[p] = "wait"
    /\ is_alive' = [is_alive EXCEPT ![p] = FALSE]
    /\ watcher' = [watcher EXCEPT ![p] = "send_exit"]
    /\ UNCHANGED <<is_pid1, mainVars, IS_SIGNALED, relay, kills, handlerVars,
                   forwarderVars, exitLoopVars>>

\* exit_tx.send fails: exit_rx was dropped with the exit loop's closure.  The
\* watcher panics, and local_exit_tx is dropped without a send.
WatcherSendExitFail(p) ==
    /\ ~Terminated
    /\ watcher[p] = "send_exit"
    /\ exitLoop \in {"done", "panicked"}
    /\ watcher' = [watcher EXCEPT ![p] = "panicked"]
    /\ UNCHANGED <<is_pid1, mainVars, IS_SIGNALED, is_alive, relay,
                   kills, handlerVars, forwarderVars, exitLoopVars>>

\* ---- the exit loop (main.rs 73-87) --------------------------------------

\* The exit loop without the fetch_sub.
ExitLoopRecvNoSub(p) ==
    /\ ~Terminated
    /\ exitLoop = "recv"
    /\ watcher[p] = "send_exit"
    /\ watcher' = [watcher EXCEPT ![p] = "send_local_exit"]
    /\ exitLoop' = IF CHILD_PROCESS_COUNT = 0 THEN "done" ELSE "load_signaled"
    /\ UNCHANGED <<is_pid1, mainVars, IS_SIGNALED, is_alive, relay,
                   kills, handlerVars, forwarderVars, cascades>>

\* exit_rx.recv() meets the exit_tx.send() of p's watcher; the exit loop
\* subtracts one from CHILD_PROCESS_COUNT (no other thread touches the counter
\* once the loop runs) and breaks when nothing remains.  The watcher goes on
\* to local_exit_tx.send.
ExitLoopRecv(p) ==
    /\ ~Terminated
    /\ exitLoop = "recv"
    /\ watcher[p] = "send_exit"
    /\ watcher' = [watcher EXCEPT ![p] = "send_local_exit"]
    /\ LET remaining_processes == CHILD_PROCESS_COUNT - 1 IN
        /\ CHILD_PROCESS_COUNT' = remaining_processes
        /\ exitLoop' = IF remaining_processes = 0 THEN "done" ELSE "load_signaled"
    /\ UNCHANGED <<is_pid1, mainPc, config, processes, IS_SIGNALED, is_alive, relay, kills, handlerVars,
                   forwarderVars, cascades>>

\* The load of IS_SIGNALED is dropped: the loop always goes on to send SIGTERM.
ExitLoopLoadIgnored ==
    /\ ~Terminated
    /\ exitLoop = "load_signaled"
    /\ exitLoop' = "send"
    /\ cascades' = cascades + 1
    /\ UNCHANGED <<is_pid1, mainVars, IS_SIGNALED, childVars, handlerVars,
                   forwarderVars>>

\* if !IS_SIGNALED.load(): go on to signal_tx_clone.send(SIGTERM), else loop.
ExitLoopLoad ==
    /\ ~Terminated
    /\ exitLoop = "load_signaled"
    /\ IF IS_SIGNALED
         THEN exitLoop' = "recv" /\ cascades' = cascades
         ELSE exitLoop' = "send" /\ cascades' = cascades + 1
    /\ UNCHANGED <<is_pid1, mainVars, IS_SIGNALED, childVars, handlerVars,
                   forwarderVars>>

\* After the last process the forwarder receives again.
ForEachAgain(i) ==
    /\ forwarderIndex' = i
    /\ forwarder' = IF i > config THEN "recv" ELSE "send_signal"

\* The first step of the forwarder after signal_rx.recv() returned i - 1
\* calls of send_signal ago: the next send_signal, or the end of for_each
\* (the closure returns and signal_rx is dropped).
ForEach(i) ==
    /\ forwarderIndex' = i
    /\ forwarder' = IF i > config THEN "done" ELSE "send_signal"

\* signal_tx_clone.send(SIGTERM) meets the forwarder's signal_rx.recv().
ExitLoopSend ==
    /\ ~Terminated
    /\ exitLoop = "send"
    /\ forwarder = "recv"
    /\ exitLoop' = "recv"
    /\ forwarderSignal' = SIGTERM
    /\ ForEach(1)
    /\ UNCHANGED <<is_pid1, mainVars, IS_SIGNALED, childVars, handlerVars,
                   cascades>>

\* signal_tx_clone.send(SIGTERM) fails: the forwarder's closure has ended and
\* dropped signal_rx.  The expect panics the exit loop thread.  (When not pid1
\* signal_rx stays in main's frame and nothing ever receives: the send blocks.)
ExitLoopSendFail ==
    /\ ~Terminated
    /\ exitLoop = "send"
    /\ forwarder \in {"done", "panicked"}
    /\ exitLoop' = "panicked"
    /\ UNCHANGED <<is_pid1, mainVars, IS_SIGNALED, childVars, handlerVars,
                   forwarderVars, cascades>>

\* ---- the signal listener (main.rs 106-124) ------------------------------

\* signals.forever() yields the next external signal.
SignalArrive(s) ==
    /\ ~Terminated
    /\ handler = "wait"
    /\ handlerSignal' = s
    /\ handler' = "store_signaled"
    /\ UNCHANGED <<is_pid1, mainVars, IS_SIGNALED, childVars, forwarderVars,
                   exitLoopVars>>

\* The listener forwards whether or not it is pid1.
HandlerStoreAlwaysSend ==
    /\ ~Terminated
    /\ handler = "store_signaled"
    /\ IS_SIGNALED' = TRUE
    /\ handler' = "send"
    /\ UNCHANGED <<is_pid1, mainVars, childVars, handlerSignal,
                   forwarderVars, exitLoopVars>>

\* IS_SIGNALED.store(true); if is_pid1 go on to signal_tx.send(signal).
HandlerStore ==
    /\ ~Terminated
    /\ handler = "store_signaled"
    /\ IS_SIGNALED' = TRUE
    /\ handler' = IF is_pid1 THEN "send" ELSE "wait"
    /\ handlerSignal' = IF is_pid1 THEN handlerSignal ELSE NoSignal
    /\ UNCHANGED <<is_pid1, mainVars, childVars, forwarderVars,
                   exitLoopVars>>

\* signal_tx.send(signal) meets the forwarder's signal_rx.recv().
HandlerSend ==
    /\ ~Terminated
    /\ handler = "send"
    /\ forwarder = "recv"
    /\ handler' = "wait"
    /\ handlerSignal' = NoSignal
    /\ forwarderSignal' = handlerSignal
    /\ ForEach(1)
    /\ UNCHANGED <<is_pid1, mainVars, IS_SIGNALED, childVars,
                   exitLoopVars>>

\* signal_tx.send(signal) fails: signal_rx was dropped; the listener panics.
HandlerSendFail ==
    /\ ~Terminated
    /\ handler = "send"
    /\ forwarder \in {"done", "panicked"}
    /\ handler' = "panicked"
    /\ UNCHANGED <<is_pid1, mainVars, IS_SIGNALED, childVars, handlerSignal, forwarderVars, exitLoopVars>>

\* ---- the forwarder's for_each and Process::send_signal (main.rs 63-70,
\* ---- 194-200) ------------------------------------------------------------

\* send_signal without the is_alive check: always goes on to the send.
SendSignalUnchecked ==
    /\ ~Terminated
    /\ forwarder = "send_signal"
    /\ forwarder' = "send"
    /\ UNCHANGED <<is_pid1, mainVars, IS_SIGNALED, childVars, handlerVars,
                   forwarderSignal, forwarderIndex, exitLoopVars>>

\* send_signal on processes[forwarderIndex]: if is_alive.load() go on to
\* self.signal_tx.send(signal), otherwise return (for_each moves on).
SendSignal ==
    /\ ~Terminated
    /\ forwarder = "send_signal"
    /\ IF is_alive[forwarderIndex]
         THEN forwarder' = "send" /\ forwarderIndex' = forwarderIndex
         ELSE ForEach(forwarderIndex + 1)
    /\ UNCHANGED <<is_pid1, mainVars, IS_SIGNALED, childVars, handlerVars,
                   forwarderSignal, exitLoopVars>>

\* self.signal_tx.send(signal) is entered while the relay loop still holds
\* signal_rx: the forwarder is now a waiting sender, which a try_recv can meet.
SendSignalWait ==
    /\ ~Terminated
    /\ forwarder = "send"
    /\ relay[forwarderIndex] # "done"
    /\ forwarder' = "sending"
    /\ UNCHANGED <<is_pid1, mainVars, IS_SIGNALED, childVars, handlerVars,
                   forwarderSignal, forwarderIndex, exitLoopVars>>

\* self.signal_tx.send(signal) fails, on entry or while waiting: the relay
\* loop of that process has ended and dropped signal_rx.  The expect panics
\* the forwarder thread, which drops the supervisor's signal_rx.
SendSignalFail ==
    /\ ~Terminated
    /\ forwarder \in {"send", "sending"}
    /\ relay[forwarderIndex] = "done"
    /\ forwarder' = "panicked"
    /\ UNCHANGED <<is_pid1, mainVars, IS_SIGNALED, childVars, handlerVars,
                   forwarderSignal, forwarderIndex, exitLoopVars>>

\* ---- the signal-relay loop (main.rs 148-168) ----------------------------
\* A sender waiting on a bounded(0) channel keeps waiting until it is received
\* (nothing else receives from these channels), so what select.ready() saw
\* still holds at the try_recv calls that follow it: ready() and the try_recv
\* it leads to are one step.  When ready() returns only because a panicked
\* watcher dropped local_exit_tx, both try_recv calls fail and the loop spins
\* without changing anything: a stuttering step.

\* A send is waiting on p's signal channel.
SignalPending(p) == forwarder = "sending" /\ forwarderIndex = p

\* The watcher offers the local-exit notice before its exit notification
\* has been taken.
LocalExitPendingEarly(p) == watcher[p] \in {"send_exit", "send_local_exit"}

\* A send is waiting on p's local-exit channel.
LocalExitPending(p) == watcher[p] = "send_local_exit"

\* The loop ends after the first signal it has relayed.
RelayRecvSignalOnce(p) ==
    /\ ~Terminated
    /\ relay[p] = "select"
    /\ SignalPending(p)
    /\ kills' = [kills EXCEPT ![p] = Append(@, forwarderSignal)]
    /\ relay' = [relay EXCEPT ![p] = "done"]
    /\ ForEach(p + 1)
    /\ UNCHANGED <<is_pid1, mainVars, IS_SIGNALED, is_alive, watcher,
                   handlerVars, forwarderSignal, exitLoopVars>>

\* select.ready() returns and signal_rx.try_recv() is Ok(signal): it meets
\* the forwarder's send, so send_signal returns; the loop goes on to
\* kill(pid, signal) and then to the second try_recv.
RelayRecvSignal(p) ==
    /\ ~Terminated
    /\ relay[p] = "select"
    /\ SignalPending(p)
    /\ kills' = [kills EXCEPT ![p] = Append(@, forwarderSignal)]
    /\ relay' = [relay EXCEPT ![p] = "try_recv_local_exit"]
    /\ ForEach(p + 1)
    /\ UNCHANGED <<is_pid1, mainVars, IS_SIGNALED, is_alive, watcher,
                   handlerVars, forwarderSignal, exitLoopVars>>

\* local_exit_rx.try_recv() is Ok(()): it meets the watcher's last send; the
\* loop breaks, and both threads of the process end.  Either this is the
\* try_recv after a kill, or select.ready() returned for the local-exit
\* channel and signal_rx.try_recv() was Err(Empty).
RelayRecvLocalExit(p) ==
    /\ ~Terminated
    /\ \/ relay[p] = "try_recv_local_exit"
       \/ relay[p] = "select" /\ ~SignalPending(p)
    /\ LocalExitPending(p)
    /\ relay' = [relay EXCEPT ![p] = "done"]
    /\ watcher' = [watcher EXCEPT ![p] = "done"]
    /\ UNCHANGED <<is_pid1, mainVars, IS_SIGNALED, is_alive, kills,
                   handlerVars, forwarderVars, exitLoopVars>>

\* After a kill, local_exit_rx.try_recv() is an Err: loop again.
RelayRecvLocalExitEmpty(p) ==
    /\ ~Terminated
    /\ relay[p] = "try_recv_local_exit"
    /\ ~LocalExitPending(p)
    /\ relay' = [relay EXCEPT ![p] = "select"]
    /\ UNCHANGED <<is_pid1, mainVars, IS_SIGNALED, is_alive, watcher, kills,
                   handlerVars, forwarderVars, exitLoopVars>>

\* ---- the specification ---------------------------------------------------

Main ==
    \/ ReadConfig
    \/ ReadConfigFail
    \/ Spawn
    \/ SpawnFail
    \/ StartThreads
    \/ JoinOk
    \/ JoinErr

Relay(p) ==
    \/ RelayRecvSignal(p)
    \/ RelayRecvLocalExit(p)
    \/ RelayRecvLocalExitEmpty(p)

ExitLoop ==
    \/ \E p \in Procs : ExitLoopRecv(p)
    \/ ExitLoopLoad
    \/ ExitLoopSend
    \/ ExitLoopSendFail

Handler ==
    \/ HandlerStore
    \/ HandlerSend
    \/ HandlerSendFail

Forwarder ==
    \/ SendSignal
    \/ SendSignalWait
    \/ SendSignalFail

\* What the environment decides: when a child exits, when a signal arrives.
Environment ==
    \/ \E p \in Procs : WatcherWait(p)
    \/ \E s \in Signal : SignalArrive(s)

Next ==
    \/ Main
    \/ \E p \in Procs : WatcherSendExitFail(p)
    \/ \E p \in Procs : Relay(p)
    \/ ExitLoop
    \/ Handler
    \/ Forwarder
    \/ Environment

Spec == Init /\ [][Next]_vars

\* Every thread of the supervisor that can take a step eventually takes one.
\* Nothing is assumed of the environment: a child may run for ever, and
\* signals may never arrive or never stop arriving.
Fairness ==
    /\ WF_vars(StartThreads \/ Spawn \/ ReadConfig \/ JoinOk \/ JoinErr)
    /\ WF_vars(ExitLoop)
    /\ WF_vars(Handler)
    /\ WF_vars(Forwarder)
    /\ \A p \in Procs : WF_vars(WatcherSendExitFail(p))
    /\ \A p \in Procs : WF_vars(Relay(p))

FairSpec == Spec /\ Fairness

\* ---- what the claims speak of --------------------------------------------

\* The configured children.
Children == 1..config

\* p's exit notification has been received by the exit loop.
Consumed(p) == watcher[p] \in {"send_local_exit", "done"}

NumConsumed == Cardinality({p \in Procs : Consumed(p)})

\* The supervisor process has ended after a start-up that succeeded.
SupervisorEnded == mainPc \in {"exited", "panicked"}

\* kill(pid, s) has been called for p.
Killed(p, s) == \E i \in 1..Len(kills[p]) : kills[p][i] = s

\* ---- C1 -------------------------------------------------------------------
\* C1: once all children are spawned the supervisor never terminates while
\* ExitCount > 0: whenever it has terminated, the exit loop has consumed
\* exactly N exit notifications and ExitCount = 0.
C1_TerminatesOnlyAtZero ==
    SupervisorEnded => (CHILD_PROCESS_COUNT = 0 /\ NumConsumed = config)

\* ---- C2 -------------------------------------------------------------------
\* C2: in pid1 and non-pid1 mode, for N >= 1, once every child process has
\* terminated the exit loop eventually consumes every notification, ExitCount
\* reaches 0 and the supervisor terminates.
C2_AllExitedLeadsToTermination ==
    (/\ mainPc \in {"spawn", "join"}
     /\ processes = config
     /\ config >= 1
     /\ \A p \in Children : watcher[p] # "wait")
    ~> (mainPc = "exited" /\ CHILD_PROCESS_COUNT = 0 /\ NumConsumed = config)

\* ---- C3 -------------------------------------------------------------------
\* C3: whenever the exit loop decides to cascade (a child exited, IS_SIGNALED
\* was false and children remain), every child that is still alive eventually
\* has SIGTERM sent to its pid, pid1 or not.
C3_CascadeDelivered ==
    (exitLoop = "send")
    ~> (\A p \in Children : ~is_alive[p] \/ Killed(p, SIGTERM))

\* ---- C4 -------------------------------------------------------------------
\* C4: the exit loop requests a cascade at most once in a run: after the first
\* request no later child exit makes it request another.
C4_CascadeAtMostOnce == cascades <= 1

\* ---- C5 -------------------------------------------------------------------
\* C5: as pid1, when an external signal s is observed (IS_SIGNALED stored, s
\* offered to the forwarder) before any child has exited, every configured
\* child eventually has exactly s sent to its pid, unless it is gone by then.
C5_ExternalSignalForwarded ==
    \A s \in Signal :
        (/\ is_pid1
         /\ handler = "send"
         /\ handlerSignal = s
         /\ forwarder = "recv"
         /\ \A p \in Children : watcher[p] = "wait")
        ~> (\A p \in Children : ~is_alive[p] \/ kills[p] = <<s>>)

\* ---- C6 -------------------------------------------------------------------
\* C6: send_signal on a process whose is_alive is false returns at once: the
\* call is never blocked and never panics, nothing is offered on the process's
\* signal channel, no kill follows, and the counter, the flag and every other
\* thread are left as they are; for_each just moves on.
C6_DeadDeliverStep ==
    (/\ forwarder = "send_signal"
     /\ ~is_alive[forwarderIndex]
     /\ <<forwarder, forwarderIndex>>' # <<forwarder, forwarderIndex>>)
    => (/\ forwarderIndex' = forwarderIndex + 1
        /\ forwarder' = IF forwarderIndex' > config THEN "done" ELSE "send_signal"
        /\ UNCHANGED <<is_pid1, mainVars, IS_SIGNALED, childVars, handlerVars,
                       forwarderSignal, exitLoopVars>>)

C6_DeliverToDeadIsNoop ==
    /\ []((forwarder = "send_signal" /\ ~Terminated) => ENABLED SendSignal)
    /\ [][C6_DeadDeliverStep]_vars

\* send_signal has been called on a dead process and has returned: the
\* forwarder is past p, and nothing was or will be sent to p's pid.
C6_Witness ==
    \E p \in Children :
        /\ forwarderIndex > p
        /\ ~is_alive[p]
        /\ kills[p] = <<>>

\* ---- C7 -------------------------------------------------------------------
\* C7: is_alive of p is false in every state in which the exit loop has
\* received p's exit notification (so also while a cascade caused by p's exit
\* is delivered), and already when the notification is offered.
C7_AliveFalseBeforeExitSeen ==
    \A p \in Procs :
        (Consumed(p) \/ watcher[p] = "send_exit") => ~is_alive[p]

\* A cascade caused by a consumed exit is being delivered by the forwarder.
C7_Witness ==
    /\ \E p \in Children : Consumed(p)
    /\ cascades = 1
    /\ forwarderSignal = SIGTERM
    /\ forwarder = "sending"

\* ---- C8 -------------------------------------------------------------------
\* C8: when the exit loop handles a child exit and reads IS_SIGNALED = true it
\* requests no cascade: it goes back to exit_rx.recv(), offers nothing on the
\* broadcast channel, and no send_signal or kill results.  With a single
\* child, an external signal is the only signal the child is ever sent.
C8_SignaledStep ==
    (/\ exitLoop = "load_signaled"
     /\ IS_SIGNALED
     /\ exitLoop' # exitLoop)
    => (/\ exitLoop' = "recv"
        /\ UNCHANGED <<cascades, forwarderVars, childVars, handlerVars,
                       IS_SIGNALED, CHILD_PROCESS_COUNT>>)

\* The example of the claim: with one child no cascade is ever requested, and
\* the child is sent at most the one forwarded signal.
C8_OneChild ==
    config = 1 => (cascades = 0 /\ Len(kills[1]) <= 1)

C8_NoCascadeWhenSignaled ==
    /\ []C8_OneChild
    /\ [][C8_SignaledStep]_vars

\* The exit loop has handled an exit with children remaining, after an
\* external signal, and is receiving again without having asked for a cascade.
C8_Witness ==
    /\ IS_SIGNALED
    /\ exitLoop = "recv"
    /\ NumConsumed >= 1
    /\ CHILD_PROCESS_COUNT >= 1
    /\ cascades = 0

\* ---- C9 -------------------------------------------------------------------
\* C9: not pid1: a received external signal sets IS_SIGNALED and is never
\* offered on the broadcast channel, and no child is ever sent a signal
\* because of it.  pid1: IS_SIGNALED is set before the signal is offered.
C9_ListenerState ==
    /\ handler = "send" => (is_pid1 /\ IS_SIGNALED)
    /\ ~is_pid1 =>
          /\ forwarder = "none"
          /\ \A p \in Procs : kills[p] = <<>>

C9_ListenerStep ==
    (handler = "store_signaled" /\ handler' # handler)
    => /\ IS_SIGNALED'
       /\ handler' = IF is_pid1 THEN "send" ELSE "wait"
       /\ UNCHANGED <<forwarderVars, childVars, exitLoopVars>>

C9_ListenerForwardsOnlyAsPid1 ==
    /\ []C9_ListenerState
    /\ [][C9_ListenerStep]_vars

\* Not pid1, a signal was received and handled, and the listener waits again.
C9_Witness ==
    /\ ~is_pid1
    /\ handler = "wait"
    /\ IS_SIGNALED

\* ---- C10 ------------------------------------------------------------------
\* C10: when the exit loop starts CHILD_PROCESS_COUNT is N; from then on it is
\* N minus the number of exit notifications consumed, between 0 and N; it
\* changes only by one, together with one more notification consumed; and once
\* it is 0 it never changes again.
C10_CountInvariant ==
    exitLoop # "none" =>
        /\ CHILD_PROCESS_COUNT = config - NumConsumed
        /\ CHILD_PROCESS_COUNT >= 0
        /\ CHILD_PROCESS_COUNT <= config

C10_CountStep ==
    exitLoop # "none" =>
        /\ CHILD_PROCESS_COUNT = 0 => CHILD_PROCESS_COUNT' = 0
        /\ CHILD_PROCESS_COUNT' # CHILD_PROCESS_COUNT =>
              /\ CHILD_PROCESS_COUNT' = CHILD_PROCESS_COUNT - 1
              /\ NumConsumed' = NumConsumed + 1

C10_ExitCountAccounting ==
    /\ [](mainPc = "join" /\ exitLoop = "recv" /\ NumConsumed = 0
             => CHILD_PROCESS_COUNT = config)
    /\ []C10_CountInvariant
    /\ [][C10_CountStep]_vars

\* Two of three notifications have been consumed.
C10_Witness ==
    /\ config = 3
    /\ NumConsumed = 2
    /\ CHILD_PROCESS_COUNT = 1

\* ---- C11 ------------------------------------------------------------------
\* C11: once CHILD_PROCESS_COUNT has reached 0 the exit loop has ended: it
\* stays ended and consumes nothing more; main's join can return at once,
\* whatever the relay loops, exit-watchers, the listener and the forwarder are
\* doing, and main's next step is to exit.
C11_LoopEndedAtZero ==
    (exitLoop # "none" /\ config >= 1 /\ CHILD_PROCESS_COUNT = 0)
        => exitLoop = "done"

C11_MainCanExit ==
    (exitLoop = "done" /\ mainPc = "join") => ENABLED JoinOk

C11_DoneStep ==
    exitLoop = "done" =>
        /\ exitLoop' = "done"
        /\ NumConsumed' = NumConsumed
        /\ CHILD_PROCESS_COUNT' = 0
        /\ mainPc' \in {mainPc, "exited"}

C11_TerminatesAtZero ==
    /\ []C11_LoopEndedAtZero
    /\ []C11_MainCanExit
    /\ [][C11_DoneStep]_vars

\* The supervisor has exited while a relay loop, an exit-watcher and the
\* listener were still running.
C11_Witness ==
    /\ mainPc = "exited"
    /\ CHILD_PROCESS_COUNT = 0
    /\ \E p \in Children : relay[p] # "done" /\ watcher[p] = "send_local_exit"
    /\ handler = "wait"

\* ---- C12 ------------------------------------------------------------------
\* C12: a start-up failure is fatal with no partial operation: when the
\* configuration cannot be read nothing has been spawned; when a spawn fails
\* the listener, the forwarder and the exit loop are never started, and no
\* child spawned before the failure is left running.
C12_NoPartialOperation ==
    mainPc = "aborted" =>
        /\ handler = "none"
        /\ forwarder = "none"
        /\ exitLoop = "none"
        /\ \A p \in Procs : watcher[p] # "wait"

\* ---- C13 ------------------------------------------------------------------
\* C13: a send_signal that has read is_alive = true always completes: the
\* relay loop of that process never ends while the call is still to be
\* received, so the send never fails on a dropped signal_rx.
C13_DeliverRaceSafe ==
    /\ forwarder # "panicked"
    /\ forwarder \in {"send", "sending"} => relay[forwarderIndex] # "done"

\* ---- C14 ------------------------------------------------------------------
\* C14: after a start-up that succeeded no channel send ever fails on a
\* dropped receiver: not the listener's or the exit loop's send on the
\* broadcast channel, and no watcher's send on the exit or local-exit channel.
C14_NoSendFails ==
    /\ handler # "panicked"
    /\ exitLoop # "panicked"
    /\ \A p \in Procs : watcher[p] # "panicked"

C15_WatcherState ==
    \A p \in Procs :
        /\ watcher[p] \in {"send_exit", "send_local_exit", "done", "panicked"}
               => ~is_alive[p]
        /\ relay[p] = "done" => watcher[p] = "done"

C15_WatcherStep ==
    \A p \in Procs :
        /\ (watcher'[p] = "send_exit" /\ watcher[p] # "send_exit")
               => (watcher[p] = "wait" /\ is_alive[p] /\ ~is_alive'[p])
        /\ (watcher'[p] = "send_local_exit" /\ watcher[p] # "send_local_exit")
               => /\ watcher[p] = "send_exit"
                  /\ CHILD_PROCESS_COUNT' = CHILD_PROCESS_COUNT - 1
                  /\ relay'[p] # "done"
        /\ (relay'[p] = "done" /\ relay[p] # "done")
               => (watcher[p] = "send_local_exit" /\ watcher'[p] = "done")

C16_RelayEventuallyEnds ==
    \A p \in Procs :
        watcher[p] \in {"send_exit", "send_local_exit"}
            ~> (relay[p] = "done" \/ Terminated)

\* ---- C17 ------------------------------------------------------------------
\* C17: is_alive of a process goes from true to false once, by the step of
\* its own exit-watcher, and never back; and every kill of its relay loop
\* happens while is_alive is still true.
C17_AliveStep ==
    \A p \in Procs :
        /\ (is_alive[p] /\ ~is_alive'[p])
               => (watcher[p] = "wait" /\ watcher'[p] = "send_exit")
        /\ (~is_alive[p] /\ is_alive'[p]) => watcher[p] = "none"
        /\ kills'[p] # kills[p] => is_alive[p]

C17_NoKillAfterExit == [][C17_AliveStep]_vars

\* ---- C18 ------------------------------------------------------------------
\* C18: the relay loop ends only on the local-exit notice: where it has
\* ended the process is not alive; a relayed signal never ends it; and while
\* the process is alive the loop goes back to select after each kill and can
\* take the next signal.
C18_RelayState ==
    \A p \in Procs :
        /\ relay[p] = "done" => (~is_alive[p] /\ watcher[p] = "done")
        /\ (relay[p] = "try_recv_local_exit" /\ is_alive[p] /\ ~Terminated)
               => ENABLED RelayRecvLocalExitEmpty(p)
        /\ (relay[p] = "select" /\ SignalPending(p) /\ ~Terminated)
               => ENABLED RelayRecvSignal(p)

C18_RelayStep ==
    \A p \in Procs :
        /\ (relay'[p] = "done" /\ relay[p] # "done") => LocalExitPending(p)
        /\ kills'[p] # kills[p] => relay'[p] = "try_recv_local_exit"
        /\ (relay[p] = "try_recv_local_exit" /\ is_alive[p]
                /\ relay'[p] # relay[p])
               => relay'[p] = "select"

C18_EndsOnlyOnLocalExit ==
    []C18_RelayState /\ [][C18_RelayStep]_vars

\* A live process whose loop has relayed a signal and is selecting again.
C18_Witness ==
    \E p \in Children :
        /\ is_alive[p]
        /\ kills[p] # <<>>
        /\ relay[p] = "select"

\* ---- C19 ------------------------------------------------------------------
\* C19: the forwarder receives one value only, so there is at most one
\* broadcast and each process is sent at most one signal, the one the
\* forwarder received; of an external signal and a cascade SIGTERM offered
\* together exactly one is taken; when not pid1 no process is ever sent a
\* signal.
C19_KillsState ==
    \A p \in Procs :
        /\ Len(kills[p]) <= 1
        /\ kills[p] # <<>>
               => (forwarder \notin {"none", "recv"}
                   /\ kills[p] = <<forwarderSignal>>)
        /\ ~is_pid1 => (kills[p] = <<>> /\ forwarder = "none")

C19_TakesHandler ==
    /\ handler = "send" /\ handler' = "wait"
    /\ forwarderSignal' = handlerSignal

C19_TakesExitLoop ==
    /\ exitLoop = "send" /\ exitLoop' = "recv"
    /\ forwarderSignal' = SIGTERM

C19_ForwarderStep ==
    /\ forwarder \notin {"none", "recv"}
           => (forwarder' # "recv" /\ forwarderSignal' = forwarderSignal)
    /\ (forwarder = "recv" /\ forwarder' # "recv")
           => \/ C19_TakesHandler /\ exitLoop' = exitLoop
              \/ C19_TakesExitLoop /\ handler' = handler

C19_AtMostOneBroadcast ==
    []C19_KillsState /\ [][C19_ForwarderStep]_vars

\* The listener's send of an external SIGINT and the cascade's SIGTERM
\* compete for the forwarder's one recv: the cascade was taken and relayed,
\* the listener's send is still waiting.
C19_Witness ==
    /\ handler = "send"
    /\ handlerSignal = SIGINT
    /\ cascades = 1
    /\ exitLoop # "send"
    /\ forwarderSignal = SIGTERM
    /\ \E p \in Children : kills[p] = <<SIGTERM>>

====
